---- MODULE Spec2Model ----
(***************************************************************************)
(* The asynchronous export task subsystem of db_query                      *)
(* (backend/app/services/export.py, backend/app/api/v1/export_api.py).     *)
(*                                                                         *)
(* The service runs on one asyncio event loop.  A coroutine keeps the      *)
(* loop until it suspends, and the only places where the export code       *)
(* suspends are the adapter's execute_query calls: TaskManager.add_task    *)
(* and TaskManager.update_task are coroutines without a suspension point.  *)
(* One action of the model is therefore one turn of the loop:              *)
(*   ExecuteExport     ExportService.execute_export, whole                 *)
(*   CancelTask        ExportService.cancel_task, whole                    *)
(*   RunnerStart       _execute_export_task up to the COUNT query          *)
(*   RunnerCount...    from the COUNT query's answer to the data query     *)
(*   RunnerExport...   from the data query's answer to the runner's end    *)
(* The row loop of a writer awaits only update_task, so it runs to its end *)
(* inside one turn: no caller sees a half-written file or the progress     *)
(* values published on the way, and asyncio.wait_for can cut a writer off  *)
(* only while it waits for the data query.  datetime.now() is the clock    *)
(* now, in milliseconds; only SpecTime lets it advance.                    *)
(*                                                                         *)
(* retry_with_backoff of pg-mcp (src/pg_mcp/resilience/retry.py) is        *)
(* modelled beside it, in the variable retry: one action from the call to  *)
(* its first await, one for each outcome of func() and one for the end of  *)
(* asyncio.sleep.                                                          *)
(***************************************************************************)
EXTENDS Integers, Sequences, FiniteSets, TLC

\* ---------------------------------------------------------------- bounds
\* settings.export_max_concurrent_per_user is configurable (default 3); the
\* model runs it at 2, so that MaxTasks admitted tasks can overfill a user.
MaxConcurrentPerUser == 2
\* how many tasks execute_export admits in one behaviour
MaxTasks == 3
\* how many tasks SpecRun admits
MaxRunTasks == 1
\* bytes of one header line and of one serialized row in a written file
HeaderLen == 7
RowLen == 11
\* the last reading of the clock
MaxClock == 2
\* the largest RetryConfig.max_attempts a call of retry_with_backoff is given
MaxAttempts == 3

\* ------------------------------------------------------ program constants
export_max_file_size_mb == 100
batch_size == 1000
CsvRowSize == 100
JsonRowSize == 150
MarkdownRowSize == 120
\* bytes_per_row of _estimate_by_sampling when the sample has no rows
DefaultBytesPerRow == 100
\* the defaults of RetryConfig, the delays in milliseconds
base_delay == 1000
max_delay == 60000
backoff_factor == 2

\* -------------------------------------------------------------- vocabulary
PENDING == "pending"
RUNNING == "running"
COMPLETED == "completed"
FAILED == "failed"
CANCELLED == "cancelled"

TaskStatus == {PENDING, RUNNING, COMPLETED, FAILED, CANCELLED}
Terminal == {COMPLETED, FAILED, CANCELLED}

CSV == "csv"
JSON == "json"
MARKDOWN == "markdown"
ExportFormat == {CSV, JSON, MARKDOWN}

CURRENT_PAGE == "current_page"
ALL_DATA == "all_data"
ExportScope == {CURRENT_PAGE, ALL_DATA}

Users == {1, 2}

\* None of Python, for an Optional[int] field and for Optional[str] error
None == -1
NoError == "None"
\* no file at the task's file_path
NoFile == [exists |-> FALSE]

\* what the adapter answers to the COUNT query and how many rows it returns
\* to the data query (QueryResult.row_count = len(rows), adapters/*.py)
CountChoices == {0, 5, 1048576, 1048577}
RowChoices == {0, 1, 1000, 2000, 2500}

VARIABLES
    tasks,      \* TaskManager._tasks: task_id -> Task, ids 1..Len(tasks)
    files,      \* the export directory: task_id -> the file at task.file_path
    pc,         \* where the background runner of each task is suspended
    now,        \* datetime.now(timezone.utc), in milliseconds
    check,      \* the ExportCheckResponse of the last check_export_size
    line,       \* what the last call of a row generator has produced
    retry       \* the call of retry_with_backoff under way, or the last one

vars == <<tasks, files, pc, now, check, line, retry>>

\* ------------------------------------------------------------------ Task
\* Task.__init__
NewTask(user_id, export_format, sql, export_scope) ==
    [user_id |-> user_id, export_format |-> export_format, sql |-> sql,
     export_scope |-> export_scope,
     status |-> PENDING, progress |-> 0, error |-> NoError,
     file_size_bytes |-> None, row_count |-> None,
     started_at |-> None, completed_at |-> None, execution_time_ms |-> None,
     cancel_event |-> FALSE]

\* ----------------------------------------------------------- TaskManager
Registered == 1..Len(tasks)

\* a count that forgets the tasks still PENDING
ActiveTasks_RunningOnly(reg, user_id) ==
    {t \in 1..Len(reg) : reg[t].user_id = user_id /\ reg[t].status = RUNNING}

\* a count that takes the tasks of every user for the caller's
ActiveTasks_AnyUser(reg, user_id) ==
    {t \in 1..Len(reg) : reg[t].status \in {PENDING, RUNNING}}

\* TaskManager._get_active_task_count
ActiveTasks(reg, user_id) ==
    {t \in 1..Len(reg) : reg[t].user_id = user_id
                          /\ reg[t].status \in {PENDING, RUNNING}}

ActiveTaskCount(reg, user_id) == Cardinality(ActiveTasks(reg, user_id))

\* TaskManager.add_task: the check that raises ConcurrentTaskLimitError
LimitReached(reg, user_id) ==
    ActiveTaskCount(reg, user_id) >= MaxConcurrentPerUser

\* TaskManager.update_task: a field is written only when its argument is
\* not None; upd is the record of the arguments that were passed
UpdateTask(reg, task_id, upd) ==
    IF task_id \notin 1..Len(reg) THEN reg
    ELSE [reg EXCEPT ![task_id] =
            [f \in DOMAIN reg[task_id] |->
                IF f \in DOMAIN upd THEN upd[f] ELSE reg[task_id][f]]]

\* ------------------------------------------------------------------ files
\* size of the file as stat() reports it
FileLength(f) ==
    IF ~f.exists THEN 0
    ELSE f.bom + f.header * HeaderLen + f.rows * RowLen
         + f.commas * 2 + f.newlines + f.brackets * 2

\* open(task.file_path, "w", ...) and what each writer puts before the rows:
\* CSV a byte-order mark (utf-8-sig) and the header line, JSON "[\n",
\* Markdown the header line and the separator line
OpenedFile(export_format) ==
    [exists |-> TRUE,
     bom |-> IF export_format = CSV THEN 3 ELSE 0,
     header |-> CASE export_format = CSV -> 1
                  [] export_format = JSON -> 0
                  [] export_format = MARKDOWN -> 2,
     brackets |-> IF export_format = JSON THEN 1 ELSE 0,
     rows |-> 0, commas |-> 0, newlines |-> 0]

\* --------------------------------------------------------- SizeEstimator
\* one row size for every format
AvgRowSize_Flat(export_format) == CsvRowSize

\* avg_row_sizes of _estimate_by_metadata
AvgRowSize(export_format) ==
    CASE export_format = CSV -> CsvRowSize
      [] export_format = JSON -> JsonRowSize
      [] export_format = MARKDOWN -> MarkdownRowSize

\* ExportService.__init__: max_file_size_bytes
MaxFileSizeBytes == export_max_file_size_mb * 1024 * 1024

\* _estimate_by_metadata: estimated_bytes for a COUNT answer of row_count
EstimatedBytes(row_count, export_format) == row_count * AvgRowSize(export_format)

\* a gate that also refuses an estimate equal to the limit
SizeExceeded_AtLimit(row_count, export_format) ==
    EstimatedBytes(row_count, export_format) >= MaxFileSizeBytes

\* _validate_export_constraints: the condition that raises FileSizeExceededError
SizeExceeded(row_count, export_format) ==
    EstimatedBytes(row_count, export_format) > MaxFileSizeBytes

\* round(estimated_bytes / (1024 * 1024), 2), in hundredths of a megabyte:
\* the quotient is exact in a float, and round() takes a tie to the even
\* digit; whole megabytes are split off first to keep the products small
RoundedMb(estimated_bytes) ==
    LET whole == estimated_bytes \div (1024 * 1024)
        rest == estimated_bytes % (1024 * 1024)
        q == (rest * 100) \div (1024 * 1024)
        r == (rest * 100) % (1024 * 1024)
    IN whole * 100
       + (IF 2 * r > 1024 * 1024 \/ (2 * r = 1024 * 1024 /\ q % 2 = 1)
          THEN q + 1
          ELSE q)

\* the SizeEstimate both estimators build from the COUNT answer
SizeEstimate(total_rows, bytes_per_row, method, confidence, sample_size) ==
    [estimated_bytes |-> total_rows * bytes_per_row,
     estimated_mb |-> RoundedMb(total_rows * bytes_per_row),
     bytes_per_row |-> bytes_per_row,
     method |-> method,
     confidence |-> confidence,
     sample_size |-> sample_size]

\* a metadata estimator that adds the estimate of the call before
EstimateByMetadata_RunningTotal(row_count, export_format) ==
    [SizeEstimate(row_count, AvgRowSize(export_format), "metadata", "low", None)
     EXCEPT !.estimated_bytes =
                @ + (IF check.called /\ check.raised = NoError
                     THEN check.estimatedSize.estimated_bytes
                     ELSE 0)]

\* _estimate_by_metadata for a COUNT answer of row_count
EstimateByMetadata(row_count, export_format) ==
    SizeEstimate(row_count, AvgRowSize(export_format), "metadata", "low", None)

\* _estimate_by_sampling: the sample query answered sample_rows rows whose
\* generated lines add up to sample_bytes, the COUNT query total_rows
EstimateBySampling(sample_rows, sample_bytes, total_rows) ==
    SizeEstimate(total_rows,
                 IF sample_rows > 0 THEN sample_bytes \div sample_rows
                 ELSE DefaultBytesPerRow,
                 "sample", "medium", sample_rows)

\* the SQL of a request, as the external validate_sql sees it
ValidSql == "SELECT"
InvalidSql == "DROP"
\* a query that carries the row limit of the page the caller looks at
LimitedSql == "SELECT LIMIT"
SqlChoices == {ValidSql, InvalidSql}

\* is_valid of validate_sql(sql, db_type)
ValidateSql(sql) == sql \in {ValidSql, LimitedSql}

\* the adapter.execute_query calls of one estimate, in order, each with the
\* number of rows it answered: the sampling estimator runs the LIMIT query
\* and then the COUNT query, the metadata estimator the COUNT query alone
EstimateQueries(use_sampling, sample_rows, total_rows) ==
    IF use_sampling
    THEN <<[query |-> "sample", rows |-> sample_rows],
           [query |-> "count", rows |-> total_rows]>>
    ELSE <<[query |-> "count", rows |-> total_rows]>>

\* an ExportCheckResponse without a warning or without a recommendation
NoText == "None"

\* check_export_size after the estimate: allowed, warning, recommendation;
\* the elif compares estimated_mb, the rounded value, with 0.8 * max_mb
CheckResponse(estimate) ==
    LET allowed == estimate.estimated_bytes <= MaxFileSizeBytes
    IN [called |-> TRUE,
        allowed |-> allowed,
        estimatedSize |-> estimate,
        warning |-> IF ~allowed THEN "exceeds maximum allowed"
                    ELSE IF estimate.estimated_mb > export_max_file_size_mb * 80
                         THEN "is close to maximum limit"
                         ELSE NoText,
        recommendation |-> IF ~allowed THEN "Consider adding WHERE clause"
                           ELSE NoText]

\* ---------------------------------------------------------------- writers
\* file I/O in one run of a writer: no failure, open() raises, or the write
\* of the row with index idx raises
NoFail == [at |-> "none", idx |-> 0]
FailOpen == [at |-> "open", idx |-> 0]
FailRow(idx) == [at |-> "row", idx |-> idx]
FailChoices == {NoFail, FailOpen, FailRow(0), FailRow(1500), FailRow(2400)}

\* whether the write of a row raises in a loop over n rows
RowFails(n, fail) == fail.at = "row" /\ fail.idx < n

\* a percentage of the batch instead of the whole result
ProgressAt_OfBatch(written, row_count) == (written * 100) \div batch_size

\* The <<idx + 1, row_count>>, among the multiples of batch_size and the row
\* counts up to 100000, for which the double (idx + 1) / row_count * 100
\* lies just below the whole number (idx + 1) * 100 / row_count: for
\* 29000 / 50000 * 100 the quotient rounds to 0.58 and the product to
\* 57.99999999999999.  For every other pair int() of the double is the
\* floor of the exact quotient.
FloatBelow ==
    {<<29000, 50000>>, <<29000, 100000>>, <<57000, 100000>>, <<58000, 100000>>}

\* progress = int((idx + 1) / result.row_count * 100), in double arithmetic
ProgressAt(written, row_count) ==
    (written * 100) \div row_count
    - (IF <<written, row_count>> \in FloatBelow THEN 1 ELSE 0)

\* a loop that reads the flag only after it has written the row
RowsWritten_FlagAfterWrite(n, cancelled, fail) ==
    IF cancelled THEN (IF n > 0 /\ ~RowFails(1, fail) THEN 1 ELSE 0)
    ELSE IF RowFails(n, fail) THEN fail.idx
    ELSE n

\* The row loop of _export_to_csv / _export_to_json / _export_to_markdown does
\* not suspend, so the cancellation flag it reads at the top of every
\* iteration is the flag at the loop's entry.  Iterations completed:
RowsWritten(n, cancelled, fail) ==
    IF cancelled THEN 0
    ELSE IF RowFails(n, fail) THEN fail.idx
    ELSE n

\* how the loop ends
LoopOutcome(n, cancelled, fail) ==
    IF n > 0 /\ cancelled THEN "CancelledError"
    ELSE IF RowFails(n, fail) THEN "IOError"
    ELSE "ok"

\* the last value published by update_task(progress=...) in w iterations:
\* one after every batch_size-th row, none when w < batch_size
PublishedProgress(old, w, n) ==
    IF w \div batch_size = 0 THEN old
    ELSE ProgressAt((w \div batch_size) * batch_size, n)

\* a JSON writer that puts ",\n" after every row, the last one included
WrittenFile_TrailingComma(export_format, w, n, finished) ==
    LET f == OpenedFile(export_format)
    IN [f EXCEPT !.rows = w,
                 !.commas = IF export_format = JSON THEN w ELSE 0,
                 !.newlines = IF export_format = MARKDOWN THEN w ELSE 0,
                 !.brackets = IF export_format = JSON /\ finished THEN 2 ELSE @]

\* the file after w iterations over n rows; JSON writes ",\n" after a row
\* with idx < row_count - 1 and "\n" after the last one, Markdown "\n"
\* after every row, and JSON closes with "]\n" when the loop ran to its end
WrittenFile(export_format, w, n, finished) ==
    LET f == OpenedFile(export_format)
        commas == IF export_format = JSON
                  THEN (IF w < n - 1 THEN w ELSE IF n >= 1 THEN n - 1 ELSE 0)
                  ELSE 0
    IN [f EXCEPT !.rows = w,
                 !.commas = commas,
                 !.newlines = CASE export_format = JSON -> w - commas
                                [] export_format = MARKDOWN -> w
                                [] export_format = CSV -> 0,
                 !.brackets = IF export_format = JSON /\ finished THEN 2 ELSE @]

\* ----------------------------------------------------------- RowSerializer
\* A database value is its Python type and its text: str(value), isoformat()
\* of a datetime, the utf-8 decoding with replacement of bytes.  A text is a
\* sequence of characters; a text without "|", "\n" or "\\" is one character.
NoneValue == [type |-> "NoneType", text |-> << >>]

StrValue(text) == [type |-> "str", text |-> text]

CellValues ==
    {NoneValue,
     StrValue(<<"a">>),
     StrValue(<<"a", "|", "b">>),
     StrValue(<<"a", "\n", "b">>),
     [type |-> "int", text |-> <<"7">>],
     [type |-> "datetime", text |-> <<"2024-01-02T03:04:05">>],
     [type |-> "Decimal", text |-> <<"1234.56">>],
     [type |-> "bytes", text |-> <<"x">>]}

\* _serialize_value: "" for None, else the text of the value
SerializeValue(value) ==
    CASE value.type = "NoneType" -> << >>
      [] value.type = "datetime" -> value.text
      [] value.type = "Decimal" -> value.text
      [] value.type = "bytes" -> value.text
      [] OTHER -> value.text

\* _serialize_for_json: None, datetime, Decimal and bytes are converted,
\* any other value, a dict included, is returned as it is
SerializeForJson(value) ==
    CASE value.type = "NoneType" -> value
      [] value.type = "datetime" -> StrValue(value.text)
      [] value.type = "Decimal" -> [type |-> "float", text |-> value.text]
      [] value.type = "bytes" -> StrValue(value.text)
      [] OTHER -> value

\* the types json.dumps encodes without a default hook
JsonTypes == {"NoneType", "str", "int", "float"}

\* json.dumps of one value of a JSON type
JsonValue(value) ==
    CASE value.type = "NoneType" -> [json |-> "null", text |-> << >>]
      [] value.type = "str" -> [json |-> "string", text |-> value.text]
      [] OTHER -> [json |-> "number", text |-> value.text]

\* json.dumps of a dict: TypeError when an item is not of a JSON type
JsonDumps(value) ==
    IF \A i \in DOMAIN value.items : value.items[i].type \in JsonTypes
    THEN [raised |-> NoError,
          out |-> [i \in DOMAIN value.items |-> JsonValue(value.items[i])]]
    ELSE [raised |-> "TypeError", out |-> << >>]

\* _generate_json_row: _serialize_for_json is given the row itself
GenerateJsonRow(row) ==
    JsonDumps(SerializeForJson([type |-> "dict", items |-> row]))

\* serialized.replace("|", "\\|")
RECURSIVE EscapePipes(_)
EscapePipes(text) ==
    IF text = << >> THEN << >>
    ELSE (IF Head(text) = "|" THEN <<"\\", "|">> ELSE <<Head(text)>>)
         \o EscapePipes(Tail(text))

\* " | ".join(values)
RECURSIVE Join(_)
Join(values) ==
    IF values = << >> THEN << >>
    ELSE IF Len(values) = 1 THEN Head(values)
    ELSE Head(values) \o <<" ", "|", " ">> \o Join(Tail(values))

\* "| " + " | ".join(values) + " |"
TableLine(values) == <<"|", " ">> \o Join(values) \o <<" ", "|">>

\* _generate_markdown_row: every cell stringified and its pipes escaped
GenerateMarkdownRow(columns, row) ==
    TableLine([i \in DOMAIN columns |-> EscapePipes(SerializeValue(row[i]))])

\* the column names of a result with n columns
Columns(n) == SubSeq(<< <<"c1">>, <<"c2">> >>, 1, n)

\* what _export_to_markdown writes: the header, the separator row of
\* three-dash cells, and one line and "\n" for every row
RECURSIVE MarkdownRows(_, _)
MarkdownRows(columns, rows) ==
    IF rows = << >> THEN << >>
    ELSE GenerateMarkdownRow(columns, Head(rows)) \o <<"\n">>
         \o MarkdownRows(columns, Tail(rows))

MarkdownFile(columns, rows) ==
    TableLine(columns) \o <<"\n">>
    \o TableLine([i \in DOMAIN columns |-> <<"---">>]) \o <<"\n">>
    \o MarkdownRows(columns, rows)

\* _generate_csv_row: the list of the stringified cells, one per column
GenerateCsvRow(columns, row) ==
    [i \in DOMAIN columns |-> SerializeValue(row[i])]

\* len() of a str: the number of its characters
RECURSIVE TextLen(_)
TextLen(text) ==
    IF text = << >> THEN 0 ELSE Len(Head(text)) + TextLen(Tail(text))

\* the text json.dumps writes for one value: null, a number as it is, a
\* string in quotes with its newline escaped
RECURSIVE JsonEscape(_)
JsonEscape(text) ==
    IF text = << >> THEN << >>
    ELSE (IF Head(text) = "\n" THEN <<"\\", "n">> ELSE <<Head(text)>>)
         \o JsonEscape(Tail(text))

JsonItemText(item) ==
    CASE item.json = "null" -> <<"null">>
      [] item.json = "string" -> <<"\"">> \o JsonEscape(item.text) \o <<"\"">>
      [] OTHER -> item.text

\* the text of json.dumps of a dict: {"key": value, "key": value}
RECURSIVE JsonItemsText(_, _)
JsonItemsText(columns, out) ==
    IF out = << >> THEN << >>
    ELSE <<"\"">> \o Head(columns) \o <<"\"", ": ">> \o JsonItemText(Head(out))
         \o (IF Len(out) = 1 THEN << >> ELSE <<", ">>)
         \o JsonItemsText(Tail(columns), Tail(out))

JsonObjectText(columns, out) == <<"{">> \o JsonItemsText(columns, out) \o <<"}">>

\* what the sampling estimator adds to sample_bytes for one row: len() of
\* the list _generate_csv_row returns, or of the str the JSON or the
\* Markdown generator returns
SampleLen(export_format, columns, row) ==
    CASE export_format = CSV -> Len(GenerateCsvRow(columns, row))
      [] export_format = JSON ->
            TextLen(JsonObjectText(columns, GenerateJsonRow(row).out))
      [] export_format = MARKDOWN -> TextLen(GenerateMarkdownRow(columns, row))

\* sample_bytes after the loop over result.rows
RECURSIVE SampleBytes(_, _, _)
SampleBytes(export_format, columns, rows) ==
    IF rows = << >> THEN 0
    ELSE SampleLen(export_format, columns, Head(rows))
         + SampleBytes(export_format, columns, Tail(rows))

\* -------------------------------------------------------------------- Init
\* no check_export_size call has answered yet
NoCheck == [called |-> FALSE]

\* no row generator has been called yet
NoLine == [called |-> FALSE]

\* retry_with_backoff has not been called yet
NoRetry == [pos |-> "idle"]

Init ==
    /\ tasks = << >>
    /\ files = << >>
    /\ pc = << >>
    /\ now = 0
    /\ check = NoCheck
    /\ line = NoLine
    /\ retry = NoRetry

\* a TaskManager() that builds a registry of its own for every ExportService
TaskManager_PerInstance(reg) == << >>

\* TaskManager() in ExportService.__init__: __new__ hands out the one
\* _instance and __init__ returns at once when it is _initialized, so every
\* ExportService works on the registry the process already has; the first
\* construction makes the empty registry of Init
TaskManager(reg) == reg

\* ------------------------------------------------------------ ExportService
\* execute_export raises what add_task raises, else returns the snapshot
\* TaskResponse(status=task.status, progress=task.progress, fileUrl=None)
ExecuteExportResult(user_id) ==
    IF LimitReached(TaskManager(tasks), user_id)
    THEN "ConcurrentTaskLimitError"
    ELSE PENDING

\* an execute_export that awaits the runner's first step before it returns
ExecuteExport_Awaited(user_id, export_format, sql, export_scope) ==
    IF LimitReached(tasks, user_id)
    THEN UNCHANGED <<tasks, files, pc>>
    ELSE /\ tasks' = Append(tasks, [NewTask(user_id, export_format, sql, export_scope)
                                      EXCEPT !.status = RUNNING, !.started_at = now])
         /\ files' = Append(files, NoFile)
         /\ pc' = Append(pc, "count")

\* execute_export: Task(...), add_task, create_task(_execute_export_task);
\* the task_id is the caller's fresh uuid4, here the next unused id
ExecuteExport(user_id, export_format, sql, export_scope) ==
    IF LimitReached(TaskManager(tasks), user_id)
    THEN UNCHANGED <<tasks, files, pc>>
    ELSE /\ tasks' = Append(TaskManager(tasks),
                            NewTask(user_id, export_format, sql, export_scope))
         /\ files' = Append(files, NoFile)
         /\ pc' = Append(pc, "scheduled")

\* a cancel_task that accepts every known task, whatever its status
CancelTaskResult_AnyKnown(task_id) == task_id \in Registered

\* cancel_task returns True exactly for a known task that is PENDING or RUNNING
CancelTaskResult(task_id) ==
    /\ task_id \in DOMAIN TaskManager(tasks)
    /\ TaskManager(tasks)[task_id].status \in {PENDING, RUNNING}

\* cancel_task: task.cancel(), update_task(CANCELLED, completed_at), unlink
CancelTask(task_id) ==
    IF CancelTaskResult(task_id)
    THEN /\ tasks' = UpdateTask([TaskManager(tasks) EXCEPT ![task_id].cancel_event = TRUE],
                                task_id, [status |-> CANCELLED, completed_at |-> now])
         /\ files' = [files EXCEPT ![task_id] = NoFile]
         /\ UNCHANGED pc
    ELSE UNCHANGED <<tasks, files, pc>>

\* a get_task that offers the fileUrl whenever a file is at the path
GetTask_UrlIfFile(task_id) ==
    IF task_id \notin Registered THEN [found |-> FALSE]
    ELSE [found |-> TRUE,
          status |-> tasks[task_id].status,
          progress |-> tasks[task_id].progress,
          fileUrl |-> files[task_id].exists,
          error |-> tasks[task_id].error]

\* get_task: None for an unknown id, else the snapshot with the fileUrl
GetTask(task_id) ==
    IF task_id \notin DOMAIN TaskManager(tasks) THEN [found |-> FALSE]
    ELSE [found |-> TRUE,
          status |-> TaskManager(tasks)[task_id].status,
          progress |-> TaskManager(tasks)[task_id].progress,
          fileUrl |-> TaskManager(tasks)[task_id].status = COMPLETED,
          error |-> TaskManager(tasks)[task_id].error]

\* download_export_file: 404 unless a file exists at the path
Download(task_id) ==
    IF task_id \in Registered /\ files[task_id].exists THEN 200 ELSE 404

\* ------------------------------------------------------------ ExportRunner
\* an exception handler that marks the task FAILED and drops the message
Fail_NoMessage(reg, task_id, error_msg) ==
    /\ tasks' = UpdateTask(reg, task_id, [status |-> FAILED, completed_at |-> now])
    /\ files' = [files EXCEPT ![task_id] = NoFile]
    /\ pc' = [pc EXCEPT ![task_id] = "done"]

\* the handler of "except Exception": FAILED, error, unlink of the file
Fail(reg, task_id, error_msg) ==
    /\ tasks' = UpdateTask(reg, task_id, [status |-> FAILED, error |-> error_msg,
                                          completed_at |-> now])
    /\ files' = [files EXCEPT ![task_id] = NoFile]
    /\ pc' = [pc EXCEPT ![task_id] = "done"]

\* a cancellation handler that also records the size of the partial file
Cancelled_WithSize(reg, task_id, file) ==
    /\ tasks' = UpdateTask(reg, task_id,
                           [status |-> CANCELLED, progress |-> reg[task_id].progress,
                            file_size_bytes |-> FileLength(file),
                            completed_at |-> now])
    /\ files' = [files EXCEPT ![task_id] = file]
    /\ pc' = [pc EXCEPT ![task_id] = "done"]

\* the handler of "except asyncio.CancelledError": CANCELLED, the progress
\* written back as it is, the file left as the writer left it
Cancelled(reg, task_id, file) ==
    /\ tasks' = UpdateTask(reg, task_id,
                           [status |-> CANCELLED, progress |-> reg[task_id].progress,
                            completed_at |-> now])
    /\ files' = [files EXCEPT ![task_id] = file]
    /\ pc' = [pc EXCEPT ![task_id] = "done"]

\* a completion that records the end of the run but not how long it took
Complete_NoDuration(reg, task_id, file) ==
    /\ tasks' = UpdateTask(reg, task_id,
                           [status |-> COMPLETED, progress |-> 100,
                            file_size_bytes |-> FileLength(file),
                            completed_at |-> now])
    /\ files' = [files EXCEPT ![task_id] = file]
    /\ pc' = [pc EXCEPT ![task_id] = "done"]

\* the end of the try block: stat of the closed file, COMPLETED, progress
\* 100, execution_time_ms from the started_at the runner took at its start
Complete(reg, task_id, file) ==
    /\ tasks' = UpdateTask(reg, task_id,
                           [status |-> COMPLETED, progress |-> 100,
                            file_size_bytes |-> FileLength(file),
                            completed_at |-> now,
                            execution_time_ms |-> now - reg[task_id].started_at])
    /\ files' = [files EXCEPT ![task_id] = file]
    /\ pc' = [pc EXCEPT ![task_id] = "done"]

\* the statement the writer of a task hands to adapter.execute_query: the
\* sql argument of _execute_export_task, which execute_export passes on as
\* it got it
RunnerSql(task_id) == tasks[task_id].sql

\* first turn: update_task(RUNNING, progress=0, started_at), then the COUNT
\* query of _validate_export_constraints is sent
RunnerStart(task_id) ==
    /\ task_id \in Registered
    /\ pc[task_id] = "scheduled"
    /\ tasks' = UpdateTask(tasks, task_id,
                           [status |-> RUNNING, progress |-> 0, started_at |-> now])
    /\ pc' = [pc EXCEPT ![task_id] = "count"]
    /\ UNCHANGED files

\* the COUNT query answers row_count: the size gate, then the data query
RunnerCount(task_id, row_count) ==
    /\ task_id \in Registered
    /\ pc[task_id] = "count"
    /\ IF SizeExceeded(row_count, tasks[task_id].export_format)
       THEN Fail(tasks, task_id, "FileSizeExceededError")
       ELSE /\ pc' = [pc EXCEPT ![task_id] = "query"]
            /\ UNCHANGED <<tasks, files>>

\* the COUNT query raises
RunnerCountRaises(task_id) ==
    /\ task_id \in Registered
    /\ pc[task_id] = "count"
    /\ Fail(tasks, task_id, "AdapterError")

\* a data query whose exception escapes the runner: the coroutine ends and
\* nothing is written to the task
RunnerQueryRaises_Unhandled(task_id) ==
    /\ task_id \in Registered
    /\ pc[task_id] = "query"
    /\ pc' = [pc EXCEPT ![task_id] = "done"]
    /\ UNCHANGED <<tasks, files>>

\* the data query raises
RunnerQueryRaises(task_id) ==
    /\ task_id \in Registered
    /\ pc[task_id] = "query"
    /\ Fail(tasks, task_id, "AdapterError")

\* a timeout that reaches the runner as the cancellation of its task
RunnerTimeout_AsCancelled(task_id) ==
    /\ task_id \in Registered
    /\ pc[task_id] = "query"
    /\ Cancelled(tasks, task_id, files[task_id])

\* asyncio.wait_for cuts the writer off while it waits for the data query:
\* str(TimeoutError()) is the empty string
RunnerTimeout(task_id) ==
    /\ task_id \in Registered
    /\ pc[task_id] = "query"
    /\ Fail(tasks, task_id, "")

\* the data query answers n rows: task.row_count, open, header, the row loop
\* and the runner's last update all happen in this turn
RunnerExport(task_id, n, fail) ==
    /\ task_id \in Registered
    /\ pc[task_id] = "query"
    /\ LET fmt == tasks[task_id].export_format
           cancelled == tasks[task_id].cancel_event
           w == RowsWritten(n, cancelled, fail)
           outcome == LoopOutcome(n, cancelled, fail)
           counted == [tasks EXCEPT ![task_id].row_count = n]
           reg == UpdateTask(counted, task_id,
                     [progress |-> PublishedProgress(counted[task_id].progress, w, n)])
       IN CASE fail = FailOpen -> Fail(counted, task_id, "IOError")
            [] fail # FailOpen /\ outcome = "IOError" -> Fail(reg, task_id, "IOError")
            [] fail # FailOpen /\ outcome = "CancelledError" ->
                   Cancelled(reg, task_id, WrittenFile(fmt, w, n, FALSE))
            [] fail # FailOpen /\ outcome = "ok" ->
                   Complete(reg, task_id, WrittenFile(fmt, w, n, TRUE))

\* --------------------------------------------------------------------- Next
\* One turn of the event loop, with the callers' and the adapter's inputs
\* drawn from the given sets and at most cap tasks admitted.
Turn(cap, users, formats, sqls, scopes, counts, rows, fails) ==
    \/ \E u \in users, fmt \in formats, sql \in sqls, scope \in scopes :
          /\ Len(tasks) < cap
          /\ ExecuteExport(u, fmt, sql, scope)
          /\ UNCHANGED <<now, check, line, retry>>
    \/ \E t \in 1..cap : CancelTask(t) /\ UNCHANGED <<now, check, line, retry>>
    \/ \E t \in 1..cap : RunnerStart(t) /\ UNCHANGED <<now, check, line, retry>>
    \/ \E t \in 1..cap, c \in counts :
          RunnerCount(t, c) /\ UNCHANGED <<now, check, line, retry>>
    \/ \E t \in 1..cap : RunnerCountRaises(t) /\ UNCHANGED <<now, check, line, retry>>
    \/ \E t \in 1..cap : RunnerQueryRaises(t) /\ UNCHANGED <<now, check, line, retry>>
    \/ \E t \in 1..cap : RunnerTimeout(t) /\ UNCHANGED <<now, check, line, retry>>
    \/ \E t \in 1..cap, n \in rows, fail \in fails :
          RunnerExport(t, n, fail) /\ UNCHANGED <<now, check, line, retry>>

\* one user's tasks against the per-user limit, small query results
Next == Turn(MaxTasks, {1}, {CSV}, {ValidSql}, {ALL_DATA}, {5, 1048577}, {0, 1}, {NoFail})

Spec == Init /\ [][Next]_vars

\* few tasks, every format, query results that span several progress batches
NextRun ==
    Turn(MaxRunTasks, {1}, ExportFormat, {ValidSql}, {ALL_DATA},
         CountChoices, RowChoices, FailChoices)

SpecRun == Init /\ [][NextRun]_vars

\* time passes between two turns of the loop
Tick ==
    /\ now < MaxClock
    /\ now' = now + 1
    /\ UNCHANGED <<tasks, files, pc, check, line, retry>>

\* few tasks with the clock running
NextTime ==
    \/ Turn(MaxRunTasks, {1}, {CSV}, {ValidSql}, {ALL_DATA}, {5, 1048577}, {0, 1}, {NoFail})
    \/ Tick

SpecTime == Init /\ [][NextTime]_vars

\* COUNT answers around 80% and 100% of the limit for each estimator
CheckCounts ==
    {0, 1, 5, 1000, 559240, 559241, 559276, 699050, 699051, 699094, 699095,
     819200, 838860, 838861, 838913, 838914, 873813, 873814, 1048576, 1048577}

\* answers of the sample query: <<row_count, bytes of the generated lines>>
SampleChoices == {<<0, 0>>, <<100, 12800>>, <<100, 10050>>}

\* validate_sql before anything else, as estimate_file_size has it
CheckExportSize_ValidateLast(sql, export_format, use_sampling, sample, total_rows) ==
    /\ check' = IF ~ValidateSql(sql)
                THEN [called |-> TRUE, raised |-> "ExportError",
                      queries |-> EstimateQueries(use_sampling, sample[1], total_rows)]
                ELSE CheckResponse(
                        IF use_sampling
                        THEN EstimateBySampling(sample[1], sample[2], total_rows)
                        ELSE EstimateByMetadata(total_rows, export_format))
                     @@ [raised |-> NoError,
                         queries |-> EstimateQueries(use_sampling, sample[1], total_rows)]
    /\ UNCHANGED <<tasks, files, pc, now, line, retry>>

\* check_export_size: estimate_file_size raises ExportError for SQL the
\* validator rejects, before either estimator runs; otherwise the metadata
\* estimate or the sampling one, and the response built from it.  The
\* outcome keeps the adapter queries the call has issued.
CheckExportSize(sql, export_format, use_sampling, sample, total_rows) ==
    /\ check' = IF ~ValidateSql(sql)
                THEN [called |-> TRUE, raised |-> "ExportError", queries |-> << >>]
                ELSE CheckResponse(
                        IF use_sampling
                        THEN EstimateBySampling(sample[1], sample[2], total_rows)
                        ELSE EstimateByMetadata(total_rows, export_format))
                     @@ [raised |-> NoError,
                         queries |-> EstimateQueries(use_sampling, sample[1], total_rows)]
    /\ UNCHANGED <<tasks, files, pc, now, line, retry>>

\* calls of check_export_size with inputs from the given sets
Check(sqls, formats, samplings, samples, totals) ==
    \E sql \in sqls, fmt \in formats, use_sampling \in samplings,
       sample \in samples, total \in totals :
        CheckExportSize(sql, fmt, use_sampling, sample, total)

\* calls of check_export_size, each on its own
NextCheck == Check(SqlChoices, ExportFormat, BOOLEAN, SampleChoices, CheckCounts)

SpecCheck == Init /\ [][NextCheck]_vars

\* rows of one or two columns, and results of one row or of one row twice
TableRows ==
    {<<v>> : v \in CellValues} \cup {<<v, w>> : v, w \in CellValues}

Tables == {<<r>> : r \in TableRows} \cup {<<r, r>> : r \in TableRows}

\* the row generators of a writer run over the rows of a result: the JSON
\* objects of _generate_json_row, or the Markdown file
Serialize(export_format, rows) ==
    /\ line' = IF export_format = JSON
               THEN LET objects == [i \in DOMAIN rows |-> GenerateJsonRow(rows[i])]
                    IN [called |-> TRUE, export_format |-> JSON, rows |-> rows,
                        raised |-> IF \E i \in DOMAIN rows :
                                         objects[i].raised # NoError
                                   THEN "TypeError" ELSE NoError,
                        out |-> [i \in DOMAIN rows |-> objects[i].out]]
               ELSE [called |-> TRUE, export_format |-> MARKDOWN, rows |-> rows,
                     raised |-> NoError,
                     out |-> MarkdownFile(Columns(Len(rows[1])), rows)]
    /\ UNCHANGED <<tasks, files, pc, now, check, retry>>

NextSerialize ==
    \E export_format \in {JSON, MARKDOWN}, rows \in Tables :
        Serialize(export_format, rows)

SpecSerialize == Init /\ [][NextSerialize]_vars

\* check_export_size with use_sampling on a query whose sample query answers
\* rows and whose COUNT query answers total_rows: the row generator of the
\* format runs over the sample, and a TypeError of json.dumps ends the call
\* before the COUNT query
CheckExportSizeSampled(export_format, rows, total_rows) ==
    LET columns == Columns(Len(rows[1]))
        raises == /\ export_format = JSON
                  /\ \E i \in DOMAIN rows : GenerateJsonRow(rows[i]).raised # NoError
    IN /\ line' = [called |-> TRUE, export_format |-> export_format, rows |-> rows,
                   raised |-> IF raises THEN "TypeError" ELSE NoError,
                   out |-> IF raises THEN << >>
                           ELSE [i \in DOMAIN rows |->
                                    SampleLen(export_format, columns, rows[i])]]
       /\ check' = IF raises
                   THEN [called |-> TRUE, raised |-> "TypeError",
                         queries |-> <<[query |-> "sample", rows |-> Len(rows)]>>]
                   ELSE CheckResponse(
                           EstimateBySampling(Len(rows),
                                              SampleBytes(export_format, columns, rows),
                                              total_rows))
                        @@ [raised |-> NoError,
                            queries |-> EstimateQueries(TRUE, Len(rows), total_rows)]
       /\ UNCHANGED <<tasks, files, pc, now, retry>>

\* samples of two rows of one column, and of one row of two columns
SampleTables ==
    {<< <<v>>, <<w>> >> : v, w \in CellValues}
    \cup {<< <<v, v>> >> : v \in CellValues}

\* sampling estimates of every format over small results
NextSample ==
    \E export_format \in ExportFormat, rows \in SampleTables :
        CheckExportSizeSampled(export_format, rows, 1000)

SpecSample == Init /\ [][NextSample]_vars

\* the requests of the API side by side: exports with SQL the validator
\* accepts or rejects, and size checks while their runners are under way
NextApi ==
    \/ Turn(MaxRunTasks, {1}, {CSV}, SqlChoices, {ALL_DATA}, {5, 1048577}, {0, 1}, {NoFail})
    \/ Check(SqlChoices, {CSV, JSON}, BOOLEAN, {<<0, 0>>}, {5, 1048577})

SpecApi == Init /\ [][NextApi]_vars

\* the turns of the runner of one task: the loop runs it when it is first
\* scheduled and whenever the adapter query it awaits has an outcome
RunnerStep(task_id) ==
    /\ \/ RunnerStart(task_id)
       \/ \E c \in CountChoices : RunnerCount(task_id, c)
       \/ RunnerCountRaises(task_id)
       \/ RunnerQueryRaises(task_id)
       \/ RunnerTimeout(task_id)
       \/ \E n \in RowChoices, fail \in FailChoices : RunnerExport(task_id, n, fail)
    /\ UNCHANGED <<now, check, line, retry>>

\* the event loop runs every callback that is ready, and every adapter
\* query has an outcome: it answers, raises or is cut off by wait_for
SpecFair == SpecRun /\ \A t \in 1..MaxRunTasks : WF_vars(RunnerStep(t))

\* two users share the registry: each one's exports, cancels and runners
NextUsers == Turn(MaxTasks, Users, {CSV}, {ValidSql}, {ALL_DATA}, {5}, {1}, {NoFail})

SpecUsers == Init /\ [][NextUsers]_vars

\* results of less than a batch, of a few batches and of many, and a write
\* that fails between two progress updates
ProgressRows == {999, 1000, 2000, 2500, 50000, 100000}
ProgressFails == {NoFail, FailRow(500), FailRow(1500), FailRow(29500)}

NextProgress ==
    Turn(MaxRunTasks, {1}, ExportFormat, {ValidSql}, {ALL_DATA},
         {5, 1048577}, ProgressRows, ProgressFails)

SpecProgress == Init /\ [][NextProgress]_vars

\* exports of a page and of all data, of queries with and without a limit
NextScope ==
    Turn(MaxRunTasks, {1}, {CSV, JSON}, {ValidSql, LimitedSql}, ExportScope,
         {5, 1048577}, {0, 1}, {NoFail})

SpecScope == Init /\ [][NextScope]_vars

\* ------------------------------------------------------- retry_with_backoff
\* The exceptions func raises, by type; an exception is the type and the
\* call that raised it.
ErrorTypes == {"TimeoutError", "ValueError"}

\* retryable_errors: None, the empty tuple, or a tuple of exception types
NoTuple == [given |-> FALSE, types |-> {}]
TupleOf(types) == [given |-> TRUE, types |-> types]
RetryableChoices == {NoTuple, TupleOf({}), TupleOf({"TimeoutError"})}

\* random.random(), in thousandths
RandomChoices == {0, 500}

\* a handler that retries whatever was raised
ShouldRaise_Never(retryable_errors, error_type) == FALSE

\* "if retryable_errors and not isinstance(e, retryable_errors): raise";
\* None and the empty tuple are both false
ShouldRaise(retryable_errors, error_type) ==
    /\ retryable_errors.given
    /\ retryable_errors.types # {}
    /\ error_type \notin retryable_errors.types

\* backoff_factor ** attempt
RECURSIVE Power(_, _)
Power(base, exponent) ==
    IF exponent = 0 THEN 1 ELSE base * Power(base, exponent - 1)

\* min(base_delay * backoff_factor ** attempt, max_delay), then with jitter
\* delay * (0.5 + random.random() * 0.5)
Delay(attempt, jitter, random) ==
    LET delay == IF base_delay * Power(backoff_factor, attempt) < max_delay
                 THEN base_delay * Power(backoff_factor, attempt)
                 ELSE max_delay
    IN IF jitter THEN (delay * (500 + random \div 2)) \div 1000 ELSE delay

\* a call of retry_with_backoff up to its first await: with an empty
\* range(max_attempts) the loop is skipped and RuntimeError raised, else
\* func() is called for attempt 0
RetryWithBackoff(max_attempts, jitter, retryable_errors) ==
    /\ retry.pos \in {"idle", "returned", "raised"}
    /\ retry' = [pos |-> IF max_attempts <= 0 THEN "raised" ELSE "func",
                 max_attempts |-> max_attempts,
                 jitter |-> jitter,
                 retryable_errors |-> retryable_errors,
                 attempt |-> 0,
                 events |-> IF max_attempts <= 0 THEN << >> ELSE <<"func">>,
                 errors |-> << >>,
                 returned |-> 0,
                 raised |-> IF max_attempts <= 0
                            THEN [type |-> "RuntimeError", call |-> 0]
                            ELSE [type |-> NoError, call |-> 0],
                 delay |-> 0]
    /\ UNCHANGED <<tasks, files, pc, now, check, line>>

\* calls of func so far
FuncCalls(events) == Cardinality({i \in DOMAIN events : events[i] = "func"})

\* func() returns: "return await func()"; the value is named by its call
FuncReturns ==
    /\ retry.pos = "func"
    /\ retry' = [retry EXCEPT !.pos = "returned",
                              !.returned = FuncCalls(retry.events)]
    /\ UNCHANGED <<tasks, files, pc, now, check, line>>

\* a handler that sleeps after every failed attempt, the last included
FuncRaises_AlwaysSleeps(error_type, random) ==
    /\ retry.pos = "func"
    /\ LET e == [type |-> error_type, call |-> FuncCalls(retry.events)]
       IN retry' =
            IF ShouldRaise(retry.retryable_errors, error_type)
            THEN [retry EXCEPT !.pos = "raised", !.raised = e,
                               !.errors = Append(@, e)]
            ELSE [retry EXCEPT !.pos = "sleep",
                               !.errors = Append(@, e),
                               !.delay = Delay(retry.attempt, retry.jitter, random),
                               !.events = Append(@, "sleep")]
    /\ UNCHANGED <<tasks, files, pc, now, check, line>>

\* func() raises: last_exception = e; a type that is not to be retried is
\* re-raised; on the last attempt the loop is left and last_exception
\* raised; otherwise asyncio.sleep(delay) is called
FuncRaises(error_type, random) ==
    /\ retry.pos = "func"
    /\ LET e == [type |-> error_type, call |-> FuncCalls(retry.events)]
       IN retry' =
            IF ShouldRaise(retry.retryable_errors, error_type)
            THEN [retry EXCEPT !.pos = "raised", !.raised = e,
                               !.errors = Append(@, e)]
            ELSE IF retry.attempt = retry.max_attempts - 1
            THEN [retry EXCEPT !.pos = "raised", !.raised = e,
                               !.errors = Append(@, e)]
            ELSE [retry EXCEPT !.pos = "sleep",
                               !.errors = Append(@, e),
                               !.delay = Delay(retry.attempt, retry.jitter, random),
                               !.events = Append(@, "sleep")]
    /\ UNCHANGED <<tasks, files, pc, now, check, line>>

\* asyncio.sleep(delay) is over: the next attempt of range(max_attempts)
\* calls func(); after the last one the loop ends and last_exception is
\* raised
SleepEnds ==
    /\ retry.pos = "sleep"
    /\ retry' = IF retry.attempt + 1 < retry.max_attempts
                THEN [retry EXCEPT !.pos = "func",
                                   !.attempt = @ + 1,
                                   !.events = Append(@, "func")]
                ELSE [retry EXCEPT !.pos = "raised",
                                   !.raised = retry.errors[Len(retry.errors)]]
    /\ UNCHANGED <<tasks, files, pc, now, check, line>>

NextRetry ==
    \/ \E max_attempts \in 0..MaxAttempts, jitter \in BOOLEAN,
          retryable_errors \in RetryableChoices :
          RetryWithBackoff(max_attempts, jitter, retryable_errors)
    \/ FuncReturns
    \/ \E error_type \in ErrorTypes, random \in RandomChoices :
          FuncRaises(error_type, random)
    \/ SleepEnds

SpecRetry == Init /\ [][NextRetry]_vars

\* ------------------------------------------------------------------ claims
TaskOf(user_id) == {t \in Registered : tasks[t].user_id = user_id}

\* C1: no user ever has more than export_max_concurrent_per_user tasks whose
\* status is PENDING or RUNNING.
C1_ActiveWithinLimit ==
    \A u \in Users : ActiveTaskCount(tasks, u) <= MaxConcurrentPerUser

\* C2: a task's status only moves PENDING -> RUNNING -> terminal, or
\* PENDING -> CANCELLED, and a terminal status never changes again.
C2_StatusSequence ==
    [][\A t \in Registered :
          tasks'[t].status # tasks[t].status =>
              \/ tasks[t].status = PENDING /\ tasks'[t].status \in {RUNNING, CANCELLED}
              \/ tasks[t].status = RUNNING /\ tasks'[t].status \in Terminal]_vars

\* C3: once the runner of a task has finished with the task FAILED or
\* CANCELLED, no file exists at the task's file_path.
C3_NoFileAfterFailedOrCancelled ==
    \A t \in Registered :
        pc[t] = "done" /\ tasks[t].status \in {FAILED, CANCELLED} => ~files[t].exists

\* C4: a task for which cancel_task has returned True is reported CANCELLED
\* by get_task from then on (cancel_task returns True exactly when it sets the
\* cancellation flag).
C4_CancelledStays ==
    \A t \in Registered : tasks[t].cancel_event => GetTask(t).status = CANCELLED

\* C5: a user who has submitted exactly the limit of tasks and for whom
\* cancel_task has cancelled one of them is admitted by the next
\* execute_export.
C5_AdmittedAfterCancel ==
    \A u \in Users :
        (/\ Cardinality(TaskOf(u)) = MaxConcurrentPerUser
         /\ \E t \in TaskOf(u) : tasks[t].cancel_event)
        => ExecuteExportResult(u) = PENDING

\* C6: the count check and the insert of add_task are one step: an
\* execute_export of a user with limit-1 active tasks inserts exactly one task
\* and leaves the user at the limit, so that the call racing with it raises
\* ConcurrentTaskLimitError; a call of a user at the limit inserts nothing.
C6_AtomicAdd ==
    [][\A u \in Users, fmt \in ExportFormat, sql \in SqlChoices, scope \in ExportScope :
          ExecuteExport(u, fmt, sql, scope) =>
              /\ ActiveTaskCount(tasks, u) = MaxConcurrentPerUser - 1 =>
                    /\ Len(tasks') = Len(tasks) + 1
                    /\ ActiveTaskCount(tasks', u) = MaxConcurrentPerUser
                    /\ LimitReached(tasks', u)
              /\ ActiveTaskCount(tasks, u) >= MaxConcurrentPerUser =>
                    UNCHANGED <<tasks, files, pc>>]_vars

\* C6 witness: a user at the limit with every task still PENDING, and a
\* further execute_export that would raise
C6_Witness ==
    \E u \in Users :
        /\ Len(tasks) < MaxTasks
        /\ ActiveTaskCount(tasks, u) = MaxConcurrentPerUser
        /\ \A t \in TaskOf(u) : tasks[t].status = PENDING
        /\ ExecuteExportResult(u) = "ConcurrentTaskLimitError"

\* C7: the progress get_task reports stays within 0..100 and never decreases
\* while the task is not terminal.
C7_ProgressMonotone ==
    [][\A t \in 1..Len(tasks') :
          /\ GetTask(t)'.progress \in 0..100
          /\ (t \in Registered /\ tasks[t].status \notin Terminal)
                => GetTask(t)'.progress >= GetTask(t).progress]_vars

\* C7 witness: a run that published a progress value strictly between 0 and
\* 100 before it ended
C7_Witness ==
    \E t \in Registered : tasks[t].progress = 50 /\ tasks[t].row_count = 2000

\* C8: a COMPLETED task has a file with its header, exactly row_count rows
\* (for JSON inside one pair of brackets, separated by row_count-1 commas) and
\* file_size_bytes equal to the file's length.
C8_CompletedFile ==
    \A t \in Registered :
        tasks[t].status = COMPLETED =>
            /\ files[t].exists
            /\ files[t].rows = tasks[t].row_count
            /\ files[t].header = OpenedFile(tasks[t].export_format).header
            /\ tasks[t].export_format = JSON =>
                   /\ files[t].brackets = 2
                   /\ files[t].commas = IF files[t].rows = 0 THEN 0 ELSE files[t].rows - 1
                   /\ files[t].commas + files[t].newlines = files[t].rows
            /\ tasks[t].file_size_bytes = FileLength(files[t])

\* C8 witness: a COMPLETED JSON export of several rows
C8_Witness ==
    \E t \in Registered :
        /\ tasks[t].status = COMPLETED
        /\ tasks[t].export_format = JSON
        /\ tasks[t].row_count = 2000

\* C9: a query whose metadata estimate exceeds the maximum file size is
\* rejected by execute_export, so get_task never shows a task that the size
\* gate has refused.
C9_SizeGateAtCreation ==
    \A t \in 1..MaxTasks :
        GetTask(t).found => GetTask(t).error # "FileSizeExceededError"

\* C10: a file exists at a task's file_path only while the task is COMPLETED;
\* for every other status the download of the file answers 404.
C10_DownloadOnlyCompleted ==
    \A t \in Registered :
        /\ files[t].exists => tasks[t].status = COMPLETED
        /\ tasks[t].status # COMPLETED => Download(t) = 404

\* C11: cancel_task answers true exactly for a known task that is PENDING or
\* RUNNING at the call, and then the flag is set and the status is CANCELLED
\* in that same step, the runner staying where it is suspended; for any other
\* id it answers false and changes no task, flag or file; a task that a
\* cancel has already flagged is answered false by every later cancel.
C11_CancelStep ==
    [][\A t \in 1..MaxTasks :
          /\ (t \in Registered /\ tasks[t].cancel_event) => ~CancelTaskResult(t)
          /\ CancelTask(t) =>
                 IF t \in Registered /\ tasks[t].status \in {PENDING, RUNNING}
                 THEN /\ CancelTaskResult(t)
                      /\ tasks'[t].cancel_event
                      /\ tasks'[t].status = CANCELLED
                      /\ pc' = pc
                 ELSE /\ ~CancelTaskResult(t)
                      /\ UNCHANGED <<tasks, files, pc>>]_vars

\* C12: completed_at is written once for each task, by the step that makes
\* the status terminal; once it is set no later step changes it.
C12_CompletedAtOnce ==
    [][\A t \in Registered :
          /\ tasks[t].completed_at # None =>
                 tasks'[t].completed_at = tasks[t].completed_at
          /\ tasks'[t].completed_at # tasks[t].completed_at =>
                 (tasks[t].status \notin Terminal /\ tasks'[t].status \in Terminal)]_vars

\* C13: file_size_bytes is unset whenever the status is not COMPLETED, and
\* the only step that writes it is the runner's last one, which makes the
\* task COMPLETED and records the length of the closed, fully written file.
C13_FileSizeOnlyCompleted ==
    [][\A t \in 1..Len(tasks') :
          /\ tasks'[t].status # COMPLETED => tasks'[t].file_size_bytes = None
          /\ (t \in Registered
               /\ tasks'[t].file_size_bytes # tasks[t].file_size_bytes) =>
                 /\ pc[t] = "query" /\ pc'[t] = "done"
                 /\ tasks'[t].status = COMPLETED
                 /\ files'[t].exists
                 /\ files'[t].rows = tasks'[t].row_count
                 /\ tasks'[t].file_size_bytes = FileLength(files'[t])]_vars

\* a cancelled run that left a partial file behind and recorded no size
C13_Witness ==
    \E t \in Registered :
        /\ tasks[t].status = CANCELLED
        /\ pc[t] = "done"
        /\ files[t].exists
        /\ tasks[t].file_size_bytes = None

\* the runner of task t has ended it FAILED with this message
EndsFailed(t, message) ==
    /\ tasks'[t].status = FAILED
    /\ tasks'[t].error = message
    /\ tasks'[t].completed_at = now
    /\ pc'[t] = "done"

\* C14: when the adapter raises in the count query or in the data query, or
\* opening or writing the file raises, the runner catches it: the task is
\* then FAILED with the exception's message as its error and completed_at
\* set, the runner has ended, and execute_export, get_task and cancel_task
\* keep answering with their ordinary results.
C14_RunnerCatches ==
    [][\A t \in Registered :
          /\ RunnerCountRaises(t) => EndsFailed(t, "AdapterError")
          /\ RunnerQueryRaises(t) => EndsFailed(t, "AdapterError")
          /\ \A n \in RowChoices, fail \in FailChoices :
                 (/\ RunnerExport(t, n, fail)
                  /\ \/ fail = FailOpen
                     \/ LoopOutcome(n, tasks[t].cancel_event, fail) = "IOError") =>
                     EndsFailed(t, "IOError")
          /\ tasks'[t].status = FAILED =>
                 /\ GetTask(t)'.error = tasks'[t].error
                 /\ ~CancelTaskResult(t)'
                 /\ ExecuteExportResult(tasks[t].user_id)'
                        \in {PENDING, "ConcurrentTaskLimitError"}]_vars

\* a run that a failing write ended, after rows had already been written
C14_Witness ==
    \E t \in Registered :
        /\ tasks[t].status = FAILED
        /\ tasks[t].error = "IOError"
        /\ tasks[t].row_count = 2500
        /\ tasks[t].progress > 0
        /\ tasks[t].completed_at # None

\* a timeout step of task t ends it FAILED, with the runner finished and
\* no file left at its file_path
TimeoutEndsFailed(t) ==
    RunnerTimeout(t) =>
        /\ tasks'[t].status = FAILED
        /\ pc'[t] = "done"
        /\ ~files'[t].exists

OtherErrors == {"AdapterError", "IOError", "FileSizeExceededError"}

\* C16: a task that the timeout has ended carries an error that is set, is
\* not the empty message and is not the message of any other failure.
C16_TimeoutMessage ==
    [][\A t \in Registered :
          RunnerTimeout(t) =>
              /\ GetTask(t)'.error # NoError
              /\ GetTask(t)'.error # ""
              /\ GetTask(t)'.error \notin OtherErrors]_vars

\* C17: a task has an error only while its status is FAILED; a CANCELLED
\* task has none, whichever of cancel_task and a failing runner came first.
C17_ErrorOnlyFailed ==
    \A t \in Registered :
        /\ tasks[t].error # NoError => tasks[t].status = FAILED
        /\ tasks[t].status = CANCELLED => GetTask(t).error = NoError

\* a runner that failed on a task which cancel_task had already cancelled
C17_Witness ==
    \E t \in Registered :
        /\ tasks[t].cancel_event
        /\ pc[t] = "done"
        /\ tasks[t].error = "AdapterError"

\* C18: an execute_export that admits a task returns in the step that
\* registers it and schedules its runner: the snapshot is PENDING with
\* progress 0 and no fileUrl, the runner has not taken a step, so no adapter
\* query has been issued and no file opened, and no other task has moved.
C18_ReturnsAtOnce ==
    [][\A u \in Users, fmt \in ExportFormat, sql \in SqlChoices, scope \in ExportScope :
          (ExecuteExport(u, fmt, sql, scope) /\ ~LimitReached(tasks, u)) =>
              \A t \in {Len(tasks) + 1} :
                 /\ ExecuteExportResult(u) = PENDING
                 /\ Len(tasks') = t
                 /\ GetTask(t)'.status = PENDING
                 /\ GetTask(t)'.progress = 0
                 /\ ~GetTask(t)'.fileUrl
                 /\ GetTask(t)'.error = NoError
                 /\ tasks'[t].started_at = None
                 /\ pc'[t] = "scheduled"
                 /\ ~files'[t].exists
                 /\ \A o \in Registered :
                        tasks'[o] = tasks[o] /\ pc'[o] = pc[o] /\ files'[o] = files[o]]_vars

\* a task just admitted while the runner of an earlier one waits for its query
C18_Witness ==
    \E t, o \in Registered :
        /\ pc[t] = "scheduled"
        /\ tasks[t].status = PENDING
        /\ pc[o] = "query"

\* C19: get_task answers None for an id that is not registered; for a
\* registered task it answers the task's status, progress and error as they
\* are, with a fileUrl exactly when the status is COMPLETED.
C19_GetTaskSnapshot ==
    \A id \in 1..MaxTasks :
        IF id \in Registered
        THEN /\ GetTask(id).found
             /\ GetTask(id).status = tasks[id].status
             /\ GetTask(id).progress = tasks[id].progress
             /\ GetTask(id).error = tasks[id].error
             /\ GetTask(id).fileUrl <=> tasks[id].status = COMPLETED
        ELSE ~GetTask(id).found

\* a completed task, a cancelled one whose partial file is still on disk,
\* and an id that was never registered
C19_Witness ==
    /\ \E t \in Registered : tasks[t].status = COMPLETED /\ GetTask(t).fileUrl
    /\ \E t \in Registered : tasks[t].status = CANCELLED /\ files[t].exists
    /\ \E id \in 1..MaxTasks : id \notin Registered

\* C20: check_export_size allows exactly the estimates of at most
\* max_file_size_bytes, the limit itself and 0 bytes included; a refusal
\* carries a warning and a recommendation; an allowed answer carries no
\* recommendation, and a warning exactly when the estimate is above 80% of
\* the limit.
C20_CheckExportSize ==
    (check.called /\ check.raised = NoError) =>
        LET estimated_bytes == check.estimatedSize.estimated_bytes
        IN /\ check.allowed <=> estimated_bytes <= MaxFileSizeBytes
           /\ estimated_bytes \in {0, MaxFileSizeBytes} => check.allowed
           /\ ~check.allowed =>
                  check.warning # NoText /\ check.recommendation # NoText
           /\ check.allowed =>
                  /\ check.recommendation = NoText
                  /\ check.warning # NoText <=>
                         estimated_bytes > (MaxFileSizeBytes * 8) \div 10

C22_InvalidSqlNoQuery ==
    [][\A sql \in SqlChoices, fmt \in ExportFormat, use_sampling \in BOOLEAN :
          (/\ check' # check
           /\ ~ValidateSql(sql)
           /\ \E sample \in SampleChoices, total \in CheckCounts :
                  CheckExportSize(sql, fmt, use_sampling, sample, total)) =>
              /\ check'.raised = "ExportError"
              /\ Len(check'.queries) = 0]_vars

\* a rejected check_export_size while the runner of a task waits for its query
C22_Witness ==
    /\ check.called
    /\ check.raised = "ExportError"
    /\ \E t \in Registered : pc[t] = "query"

C24_JsonSpecialValues ==
    (line.called /\ line.export_format = JSON) =>
        /\ line.raised = NoError
        /\ \A i \in DOMAIN line.rows : \A j \in DOMAIN line.rows[i] :
               LET value == line.rows[i][j]
                   object == line.out[i][j]
               IN /\ value.type = "NoneType" => object.json = "null"
                  /\ value.type \in {"datetime", "Decimal", "bytes"} =>
                         object = [json |-> "string", text |-> value.text]

\* the lines of a text, each ended by "\n"
RECURSIVE SplitLines(_, _)
SplitLines(text, current) ==
    IF text = << >> THEN (IF current = << >> THEN << >> ELSE <<current>>)
    ELSE IF Head(text) = "\n" THEN <<current>> \o SplitLines(Tail(text), << >>)
    ELSE SplitLines(Tail(text), Append(current, Head(text)))

\* the pieces of a line between its unescaped pipes, "\\|" read as a pipe
RECURSIVE SplitCells(_, _)
SplitCells(text, current) ==
    IF text = << >> THEN <<current>>
    ELSE IF Len(text) >= 2 /\ text[1] = "\\" /\ text[2] = "|"
         THEN SplitCells(Tail(Tail(text)), Append(current, "|"))
    ELSE IF Head(text) = "|" THEN <<current>> \o SplitCells(Tail(text), << >>)
    ELSE SplitCells(Tail(text), Append(current, Head(text)))

\* a piece without the blank that pads it on either side
Trim(piece) ==
    LET left == IF piece # << >> /\ Head(piece) = " " THEN Tail(piece) ELSE piece
    IN IF left # << >> /\ left[Len(left)] = " "
       THEN SubSeq(left, 1, Len(left) - 1)
       ELSE left

\* the cells of a table line: the pieces between its first and last pipe
ParseLine(text) ==
    LET pieces == SplitCells(text, << >>)
    IN [i \in 1..(Len(pieces) - 2) |-> Trim(pieces[i + 1])]

\* the records of a Markdown file: its lines after the header and separator
ParseMarkdown(text) ==
    LET lines == SplitLines(text, << >>)
    IN [i \in 1..(Len(lines) - 2) |-> ParseLine(lines[i + 2])]

\* C25: the Markdown file written for N rows, parsed back by splitting its
\* lines on unescaped pipes, gives N records whose cells are the strings of
\* the original cells, also for cells that hold a pipe or a newline.
C25_MarkdownRoundTrip ==
    (line.called /\ line.export_format = MARKDOWN) =>
        ParseMarkdown(line.out)
            = [i \in DOMAIN line.rows |->
                  [j \in DOMAIN line.rows[i] |-> SerializeValue(line.rows[i][j])]]

C27_SizeGateInRunner ==
    [][\A t \in Registered :
          /\ \A c \in CountChoices :
                 RunnerCount(t, c) =>
                     IF c * AvgRowSize(tasks[t].export_format) > MaxFileSizeBytes
                     THEN /\ tasks'[t].status = FAILED
                          /\ tasks'[t].error = "FileSizeExceededError"
                          /\ pc'[t] = "done"
                          /\ ~files'[t].exists
                     ELSE /\ pc'[t] = "query"
                          /\ tasks'[t] = tasks[t]
          /\ tasks[t].error = "FileSizeExceededError" =>
                 /\ tasks[t].row_count = None
                 /\ ~files[t].exists /\ ~files'[t].exists
                 /\ pc[t] = "done" /\ pc'[t] = "done"]_vars

\* a task that the size gate of its runner has failed
C27_Witness ==
    \E t \in Registered :
        /\ tasks[t].status = FAILED
        /\ tasks[t].error = "FileSizeExceededError"
        /\ pc[t] = "done"

\* C28: execute_export admits no task whose SQL the validator rejects, so
\* the runner of a task has sent its first query to the adapter only for SQL
\* the validator accepts.
C28_ValidatedBeforeAdapter ==
    [][/\ \A u \in Users, fmt \in ExportFormat, scope \in ExportScope :
             ExecuteExport(u, fmt, InvalidSql, scope) => UNCHANGED <<tasks, files, pc>>
       /\ \A t \in 1..Len(tasks') :
             pc'[t] # "scheduled" => ValidateSql(tasks'[t].sql)]_vars

\* C29: in each of the three writers the flag is read at the top of every
\* iteration, before the row is written: a writer that starts its loop with
\* the flag set writes no row and, when there is a row to write, ends the
\* task CANCELLED; and no step clears a flag that is set.
C29_FlagBeforeRow ==
    [][\A t \in Registered :
          /\ tasks[t].cancel_event => tasks'[t].cancel_event
          /\ tasks[t].cancel_event =>
                 \A n \in RowChoices, fail \in FailChoices :
                     RunnerExport(t, n, fail) =>
                         /\ files'[t].exists => files'[t].rows = 0
                         /\ (n > 0 /\ fail # FailOpen) =>
                                tasks'[t].status = CANCELLED]_vars

\* a writer of each format that met the flag before the first of 2500 rows
C29_Witness ==
    \E t \in Registered :
        /\ tasks[t].cancel_event
        /\ tasks[t].status = CANCELLED
        /\ tasks[t].row_count = 2500
        /\ files[t].exists /\ files[t].rows = 0

\* the runners of a user that have started and have not finished
LiveRunners(user_id) ==
    {t \in Registered : tasks[t].user_id = user_id /\ pc[t] \in {"count", "query"}}

\* C30: the runners of one user that have started and not yet finished are
\* never more than the per-user limit, also after cancel_task has cancelled
\* some of them and new tasks were admitted in their place.
C30_LiveRunnersWithinLimit ==
    \A u \in Users : Cardinality(LiveRunners(u)) <= MaxConcurrentPerUser

\* C31: under weak fairness of the runner, with every adapter query
\* answering, raising or being cut off by the timeout, every task admitted
\* to the registry comes to a state where its runner has finished and its
\* status is terminal, and stays there: none is PENDING or RUNNING forever.
C31_EveryTaskEnds ==
    \A t \in 1..MaxRunTasks :
        (t \in Registered) ~>
            [](t \in Registered /\ pc[t] = "done" /\ tasks[t].status \in Terminal)

\* a task whose runner went on after a cancel_task and has finished
C31_Witness ==
    \E t \in Registered :
        /\ pc[t] = "done"
        /\ tasks[t].cancel_event
        /\ tasks[t].status \in Terminal

\* the tasks of a user that are PENDING or RUNNING, read off the registry
OwnActive(user_id) ==
    {t \in Registered : /\ tasks[t].user_id = user_id
                        /\ tasks[t].status \in {PENDING, RUNNING}}

\* C32: execute_export raises ConcurrentTaskLimitError for a user exactly
\* when that user's own PENDING or RUNNING tasks number the limit or more;
\* COMPLETED, FAILED and CANCELLED tasks and the tasks of other users do not
\* count: every task that enters the registry belongs to a user who was
\* below the limit by this count, and it enters as a PENDING task of that
\* user and of no one else.
C32_OwnActiveOnly ==
    [][/\ \A u \in Users :
             ExecuteExportResult(u) = "ConcurrentTaskLimitError"
                <=> Cardinality(OwnActive(u)) >= MaxConcurrentPerUser
       /\ Len(tasks') > Len(tasks) =>
             \A u \in {tasks'[Len(tasks')].user_id} :
                /\ Len(tasks') = Len(tasks) + 1
                /\ Cardinality(OwnActive(u)) < MaxConcurrentPerUser
                /\ ExecuteExportResult(u) = PENDING
                /\ tasks'[Len(tasks')].status = PENDING
                /\ OwnActive(u)' = OwnActive(u) \cup {Len(tasks')}
                /\ \A o \in Users \ {u} : OwnActive(o)' = OwnActive(o)]_vars

\* one user is at the limit and the export of another user, created after
\* that, has been admitted
C32_Witness ==
    \E t \in Registered, u \in Users :
        /\ tasks[t].user_id # u
        /\ tasks[t].status = PENDING
        /\ pc[t] = "scheduled"
        /\ Cardinality({o \in OwnActive(u) : o < t}) >= MaxConcurrentPerUser

\* the caller's SQL with its row limit taken off
WithoutLimit(sql) == IF sql = LimitedSql THEN ValidSql ELSE sql

\* C33: the statement the runner sends to the adapter as its data query is
\* the caller's SQL as given when the export_scope is CURRENT_PAGE, and the
\* caller's SQL without its row limit when the export_scope is ALL_DATA.
C33_SqlByScope ==
    \A t \in Registered :
        pc[t] = "query" =>
            RunnerSql(t) = IF tasks[t].export_scope = CURRENT_PAGE
                           THEN tasks[t].sql
                           ELSE WithoutLimit(tasks[t].sql)

\* C34: a sampling estimate whose sample query answered no rows has the
\* bytes_per_row of the metadata estimate of the requested format: the
\* per-row constant of CSV, of JSON or of MARKDOWN.
C34_EmptySampleFallback ==
    [][check' # check =>
          \A fmt \in ExportFormat, total \in CheckCounts :
              CheckExportSize(ValidSql, fmt, TRUE, <<0, 0>>, total) =>
                  check'.estimatedSize.bytes_per_row
                      = EstimateByMetadata(total, fmt).bytes_per_row]_vars

\* the line of a CSV file for a row: its cells with commas between them
RECURSIVE CsvText(_)
CsvText(cells) ==
    IF cells = << >> THEN << >>
    ELSE Head(cells) \o (IF Len(cells) = 1 THEN << >> ELSE <<",">>)
         \o CsvText(Tail(cells))

\* the serialized text of a row in the target format
RowText(export_format, columns, row) ==
    CASE export_format = CSV -> CsvText(GenerateCsvRow(columns, row))
      [] export_format = JSON -> JsonObjectText(columns, GenerateJsonRow(row).out)
      [] export_format = MARKDOWN -> GenerateMarkdownRow(columns, row)

RECURSIVE RowTextSizes(_, _, _)
RowTextSizes(export_format, columns, rows) ==
    IF rows = << >> THEN 0
    ELSE TextLen(RowText(export_format, columns, Head(rows)))
         + RowTextSizes(export_format, columns, Tail(rows))

\* C35: a sampling estimate over a non-empty sample answers bytes_per_row =
\* the sizes of the serialized texts of the sampled rows in the target
\* format, summed and integer-divided by the number of sampled rows, for CSV
\* as for JSON and Markdown, and estimated_bytes = bytes_per_row times the
\* answer of the COUNT query.
C35_SampleEstimate ==
    (/\ check.called /\ check.raised = NoError
     /\ check.estimatedSize.method = "sample"
     /\ line.called /\ Len(line.rows) > 0)
    => LET columns == Columns(Len(line.rows[1]))
           per_row == RowTextSizes(line.export_format, columns, line.rows)
                          \div Len(line.rows)
       IN /\ check.estimatedSize.sample_size = Len(line.rows)
          /\ check.estimatedSize.bytes_per_row = per_row
          /\ check.estimatedSize.estimated_bytes = per_row * check.queries[2].rows

\* C36: the write loop publishes a progress update after every 1000th row
\* and at no other row, each with the value floor(rows_written * 100 /
\* total_rows) and none above 100: a loop that ends early leaves the task
\* with the value for the last full thousand of rows it wrote, or with the
\* progress it had when it wrote fewer than 1000, and only completion sets
\* 100 for a result of fewer than 1000 rows.
C36_ProgressEveryBatch ==
    [][\A t \in Registered :
          (pc[t] = "query" /\ pc'[t] = "done") =>
              \A n \in ProgressRows, fail \in ProgressFails :
                  RunnerExport(t, n, fail) =>
                      LET w == RowsWritten(n, tasks[t].cancel_event, fail)
                          last == (w \div 1000) * 1000
                      IN IF tasks'[t].status = COMPLETED
                         THEN tasks'[t].progress = 100
                         ELSE /\ tasks'[t].progress <= 100
                              /\ tasks'[t].progress =
                                    IF w < 1000 THEN tasks[t].progress
                                    ELSE (last * 100) \div n]_vars

Sleeps(events) == Cardinality({i \in DOMAIN events : events[i] = "sleep"})

\* whether the call of retry_with_backoff has ended
RetryEnded == retry.pos \in {"returned", "raised"}

\* C38: with max_attempts = n >= 1 func is called at most n times; a call
\* that succeeds is the last one and its result is what is returned; every
\* sleep lies between two calls of func, none after the last; and when
\* every call raised an error that is retried, the exception raised is that
\* of the n-th call, after exactly n calls and n - 1 sleeps.
C38_RetryAttempts ==
    (retry.pos # "idle" /\ retry.max_attempts >= 1) =>
        LET n == retry.max_attempts
            events == retry.events
        IN /\ FuncCalls(events) <= n
           /\ Sleeps(events) <= n - 1
           /\ \A i \in DOMAIN events :
                 events[i] = "sleep" =>
                    /\ i > 1 /\ events[i - 1] = "func"
                    /\ i < Len(events) => events[i + 1] = "func"
                    /\ i = Len(events) => retry.pos = "sleep"
           /\ retry.pos = "returned" =>
                 /\ retry.returned = FuncCalls(events)
                 /\ Len(retry.errors) = FuncCalls(events) - 1
                 /\ events[Len(events)] = "func"
           /\ (/\ retry.pos = "raised"
               /\ \A i \in DOMAIN retry.errors :
                     ~ShouldRaise(retry.retryable_errors, retry.errors[i].type))
              => /\ FuncCalls(events) = n
                 /\ Sleeps(events) = n - 1
                 /\ Len(retry.errors) = n
                 /\ retry.raised = retry.errors[n]
                 /\ retry.raised.call = n

\* three attempts that all failed with an error that is retried
C38_Witness ==
    /\ retry.pos = "raised"
    /\ retry.max_attempts = 3
    /\ Len(retry.errors) = 3
    /\ retry.raised.call = 3
    /\ Sleeps(retry.events) = 2

\* C39: with a non-empty retryable_errors the first exception of a type
\* outside it is re-raised at once, with no further call of func and no
\* sleep; with retryable_errors = None an exception of any type is retried
\* until max_attempts calls have been made.
C39_RetryableErrors ==
    [][\A error_type \in ErrorTypes, random \in RandomChoices :
          FuncRaises(error_type, random) =>
              LET re == retry.retryable_errors
                  e == [type |-> error_type, call |-> FuncCalls(retry.events)]
              IN /\ (re.given /\ re.types # {} /\ error_type \notin re.types) =>
                       /\ retry'.pos = "raised"
                       /\ retry'.raised = e
                       /\ retry'.events = retry.events
                       /\ \A i \in 1..(Len(retry'.errors) - 1) :
                             retry'.errors[i].type \in re.types
                 /\ ~re.given =>
                       IF FuncCalls(retry.events) < retry.max_attempts
                       THEN /\ retry'.pos = "sleep"
                            /\ retry'.events = Append(retry.events, "sleep")
                       ELSE /\ retry'.pos = "raised"
                            /\ retry'.raised = e
                            /\ e.call = retry.max_attempts]_vars

\* a call that retried one error and then met one that is not to be retried
C39_Witness ==
    /\ retry.pos = "raised"
    /\ retry.retryable_errors = TupleOf({"TimeoutError"})
    /\ retry.max_attempts = 3
    /\ Len(retry.errors) = 2
    /\ retry.errors[1].type = "TimeoutError"
    /\ retry.raised = [type |-> "ValueError", call |-> 2]

====
